---- MODULE Spec2Model ----
(***************************************************************************)
(* Reaction generation of RMG-Py: rmgpy/rmg/react.py, and the Clar LP       *)
(* backends of rmgpy/molecule/clar_lp.py (at the end of the variables and  *)
(* of the actions).                                                        *)
(*                                                                         *)
(* reactAll builds the uni-, bi- and trimolecular species tuples, splits   *)
(* the family registry into sublists, appends a family list to every       *)
(* tuple and hands the resulting tasks to react, which sizes a process     *)
(* pool from the memory readings, maps reactSpecies over the tasks and     *)
(* chains the per-task reaction lists.                                     *)
(*                                                                         *)
(* Species are referred to by their index in coreSpcList (0-based, as in   *)
(* the code).  Python lists are sequences (1-based); the empty list that   *)
(* the code stores in splitListTmp in place of a split family is the       *)
(* value EmptyList.  Memory readings are whole numbers of one unit, so     *)
(* the floor of the float divmod is the integer quotient.                  *)
(***************************************************************************)
EXTENDS Integers, Sequences, FiniteSets, TLC

\* ------------------------------------------------------------- bounds
NumSpecies == 2      \* length of the core species list (tuple-building runs)
MaxFlags == 2        \* number of true entries over the three flag arrays
MaxFam == 4          \* number of families in the registry (task-building runs)
MaxPoolFam == 2      \* number of families in the registry (whole reactAll runs)
MaxProc == 2         \* largest configured maxproc
MaxMem == 2          \* largest memory reading, in units
MaxConstraints == 2  \* length of the constraints list of solve_clar_lp

\* ------------------------------------------------- program constants
nAFS == 10

HotFamilyNames ==
    { "H_Abstraction", "R_Recombination", "Intra_Disproportionation",
      "Intra_RH_Add_Endocyclic", "Singlet_Carbene_Intra_Disproportionation",
      "Intra_ene_reaction", "Disproportionation", "1,4_Linear_birad_scission",
      "R_Addition_MultipleBond", "2+2_cycloaddition_Cd", "Diels_alder_addition" }

\* the value [] that replaces a split family inside splitListTmp
EmptyList == "[]"

\* ------------------------------------------------------- input sets
\* family names a registry is drawn from: two split families, two others
FamilyUniverse == { "H_Abstraction", "Disproportionation", "ketoenol", "Korcek_step1" }

\* a species: its reactive flag and len(str(species))
SpeciesKinds ==
    { [reactive |-> TRUE,  strLen |-> nAFS],
      [reactive |-> TRUE,  strLen |-> nAFS + 1],
      [reactive |-> FALSE, strLen |-> nAFS + 1] }

Platforms == { "linux2", "darwin", "win32" }

VARIABLES
    \* arguments of reactAll and the registry getDB('kinetics').families
    coreSpcList, numOldCoreSpecies, unimolecularReact, bimolecularReact,
    trimolecularReact, families,
    \* locals of reactAll
    pc, spcTuples, splitListOrig, splitListTmp, splitList, spcTuplestmp,
    tmpk, tmpjIdx, rxns, error,
    \* react: the readings it takes and the worker count
    telemetry, procnum,
    \* the pool and the map in flight
    poolState, chunksize, nextChunk, worker, reactions, mapError,
    \* species instances: the instances handed to the engine per task, and
    \* whether a core species instance was changed
    handed, coreMutated,
    \* how many times reactSpecies has called the engine for each task
    invoked,
    \* solve_clar_lp: the backend called, the constraints argument (with what
    \* adding each one does), and the position, LP object, solver runs,
    \* returned tuple and raised error of the call
    lpBackend, constraints, lpPc, lpIdx, lpObject, lpSolverRuns, lpResult, lpError

inputVars == << coreSpcList, numOldCoreSpecies, unimolecularReact,
                bimolecularReact, trimolecularReact, families >>
buildVars == << spcTuples, splitListOrig, splitListTmp, splitList,
                spcTuplestmp, tmpk, tmpjIdx >>
poolVars == << poolState, chunksize, nextChunk, worker, reactions, mapError >>
heapVars == << handed, coreMutated, invoked >>
clarVars == << lpBackend, constraints, lpPc, lpIdx, lpObject, lpSolverRuns,
               lpResult, lpError >>
reactVars == << inputVars, buildVars, pc, rxns, error, telemetry, procnum,
               poolVars, heapVars >>
vars == << reactVars, clarVars >>

\* ------------------------------------------------------------ helpers
Range(s) == { s[i] : i \in DOMAIN s }

Min(a, b) == IF a < b THEN a ELSE b
Max(a, b) == IF a > b THEN a ELSE b

RECURSIVE SumTo(_, _)
SumTo(f, n) == IF n = 0 THEN 0 ELSE f[n] + SumTo(f, n - 1)

RECURSIVE SubsetsUpTo(_, _)
SubsetsUpTo(S, k) ==
    IF k = 0 THEN { {} }
    ELSE LET P == SubsetsUpTo(S, k - 1)
         IN  P \cup { p \cup {x} : p \in P, x \in S }

RECURSIVE Flatten(_)
Flatten(ss) == IF Len(ss) = 0 THEN << >> ELSE Head(ss) \o Flatten(Tail(ss))

NoError == [type |-> "none", task |-> 0]
NoTmpk == [bound |-> FALSE, spcs |-> << >>, fams |-> << >>]
NoTelemetry == [platform |-> "", maxproc |-> 0, readable |-> TRUE,
                memoryavailable |-> 0, memoryuse |-> 0]
Idle == [chunk |-> 0, pos |-> 0, acc |-> << >>]
NoResult == [ready |-> FALSE, value |-> << >>]

\* ------------------------------------------- tuple building (125-144)
NumCore == Cardinality(DOMAIN coreSpcList)

UnimolecularSelected(i) ==
    unimolecularReact[i] /\ coreSpcList[i].reactive

BimolecularSelected(i, j) ==
    /\ bimolecularReact[<<i, j>>]
    /\ coreSpcList[i].reactive /\ coreSpcList[j].reactive

TrimolecularSelected(i, j, k) ==
    /\ trimolecularReact.at[<<i, j, k>>]
    /\ coreSpcList[i].reactive /\ coreSpcList[j].reactive /\ coreSpcList[k].reactive

\* variant: the inner loops restart at 0 (xrange(numOldCoreSpecies))
InnerStartZero(i) == 0

\* xrange(i, numOldCoreSpecies) starts the inner loops at the outer index
InnerStart(i) == i

RECURSIVE UniLoop(_, _)
UniLoop(i, acc) ==
    IF i >= numOldCoreSpecies THEN acc
    ELSE UniLoop(i + 1, IF UnimolecularSelected(i) THEN Append(acc, <<i>>) ELSE acc)

\* variant: the inner loop of the pairs runs downwards
RECURSIVE BiLoopDescending(_, _, _)
BiLoopDescending(i, j, acc) ==
    IF i >= numOldCoreSpecies THEN acc
    ELSE IF j >= numOldCoreSpecies THEN BiLoopDescending(i + 1, i + 1, acc)
    ELSE LET jj == numOldCoreSpecies - 1 - (j - i)
         IN  BiLoopDescending(i, j + 1,
                 IF BimolecularSelected(i, jj) THEN Append(acc, <<i, jj>>) ELSE acc)

RECURSIVE BiLoop(_, _, _)
BiLoop(i, j, acc) ==
    IF i >= numOldCoreSpecies THEN acc
    ELSE IF j >= numOldCoreSpecies THEN BiLoop(i + 1, InnerStart(i + 1), acc)
    ELSE BiLoop(i, j + 1,
                IF BimolecularSelected(i, j) THEN Append(acc, <<i, j>>) ELSE acc)

RECURSIVE TriLoop(_, _, _, _)
TriLoop(i, j, k, acc) ==
    IF i >= numOldCoreSpecies THEN acc
    ELSE IF j >= numOldCoreSpecies
         THEN TriLoop(i + 1, InnerStart(i + 1), InnerStart(InnerStart(i + 1)), acc)
    ELSE IF k >= numOldCoreSpecies THEN TriLoop(i, j + 1, InnerStart(j + 1), acc)
    ELSE TriLoop(i, j, k + 1,
                 IF TrimolecularSelected(i, j, k) THEN Append(acc, <<i, j, k>>) ELSE acc)

BuiltTuples ==
    LET uni == UniLoop(0, << >>)
        bi  == BiLoop(0, InnerStart(0), uni)
    IN  IF trimolecularReact.isNone THEN bi
        ELSE TriLoop(0, InnerStart(0), InnerStart(InnerStart(0)), bi)

\* ------------------------------------- family sublists (146-191)
\* variant: the chain lacks the branch for Disproportionation
IsSplitFamilyShort(name) == name \in HotFamilyNames \ { "Disproportionation" }

\* the elif chain of lines 157-189
IsSplitFamily(name) == name \in HotFamilyNames

\* variant: the split families are left in splitListTmp
KeptFamilies(fams) == fams

\* splitListTmp after the loop: every split family replaced by []
BlankedFamilies(fams) ==
    [i \in 1..Len(fams) |-> IF IsSplitFamily(fams[i]) THEN EmptyList ELSE fams[i]]

\* the one-family sublists appended to splitList, in registry order
SplitSublists(fams) ==
    LET hot == SelectSeq(fams, IsSplitFamily)
    IN  [i \in 1..Len(hot) |-> << hot[i] >>]

\* splitList after line 191
BuiltSplitList(fams) == Append(SplitSublists(fams), BlankedFamilies(fams))

\* ------------------------------- tasks: family list appended (193-232)
\* len(str(x)) of a list element: a family name in quotes, or []
ReprLen(e) == IF e = EmptyList THEN 2 ELSE Len(e) + 2

\* len(str(l)) of a Python list of such elements
ListStrLen(l) ==
    IF Len(l) = 0 THEN 2
    ELSE 2 + SumTo([i \in 1..Len(l) |-> ReprLen(l[i])], Len(l)) + 2 * (Len(l) - 1)

\* len(str(species)) > nAFS
ExceedsNAFS(i) == coreSpcList[i].strLen > nAFS

Task(spcs, fams) == [spcs |-> spcs, fams |-> fams]

\* the condition of the branch taken for tmpj, read as the code reads it:
\* the third branch reads tmpk, the list left by the previous iteration
SplitCondition(tmpj) ==
    CASE Len(tmpj) = 1 -> ExceedsNAFS(tmpj[1])
      [] Len(tmpj) = 2 -> ExceedsNAFS(tmpj[1]) \/ ExceedsNAFS(tmpj[2])
      [] OTHER -> \/ ExceedsNAFS(tmpk.spcs[1])
                  \/ ExceedsNAFS(tmpk.spcs[2])
                  \/ ListStrLen(tmpk.fams) > nAFS

\* "taken", "skipped" (no branch matches) or "unbound" (tmpk read before
\* any assignment)
BranchOf(tmpj) ==
    IF Len(tmpj) = 1 \/ Len(tmpj) = 2 THEN "taken"
    ELSE IF ~tmpk.bound THEN "unbound"
    ELSE IF Len(tmpk.spcs) + 1 = 3 THEN "taken"
    ELSE "skipped"

FamilyListsFor(tmpj) ==
    IF SplitCondition(tmpj) THEN splitList ELSE << splitListOrig >>

\* -------------------------------------------------------- initial states
Registries(max) ==
    { r \in UNION { [1..n -> FamilyUniverse] : n \in 1..max } :
        \A a, b \in DOMAIN r : a # b => r[a] # r[b] }

FlagSlots(n, withTri) ==
    { <<i>> : i \in 0..(n - 1) }
    \cup { <<i, j>> : i \in 0..(n - 1), j \in 0..(n - 1) }
    \cup IF withTri
         THEN { <<i, j, k>> : i \in 0..(n - 1), j \in 0..(n - 1), k \in 0..(n - 1) }
         ELSE { }

InitInputs(n, registries) ==
    /\ coreSpcList \in [0..(n - 1) -> SpeciesKinds]
    /\ numOldCoreSpecies \in 0..n
    /\ families \in registries
    /\ \E withTri \in BOOLEAN :
       \E T \in SubsetsUpTo(FlagSlots(numOldCoreSpecies, withTri), MaxFlags) :
          /\ unimolecularReact = [i \in 0..(n - 1) |-> <<i>> \in T]
          /\ bimolecularReact =
                [p \in (0..(n - 1)) \X (0..(n - 1)) |-> p \in T]
          /\ trimolecularReact =
                [isNone |-> ~withTri,
                 at |-> [q \in (0..(n - 1)) \X (0..(n - 1)) \X (0..(n - 1)) |-> q \in T]]

InitLocals ==
    /\ pc = "start"
    /\ spcTuples = << >>
    /\ splitListOrig = << >>
    /\ splitListTmp = << >>
    /\ splitList = << >>
    /\ spcTuplestmp = << >>
    /\ tmpk = NoTmpk
    /\ tmpjIdx = 1
    /\ rxns = << >>
    /\ error = NoError
    /\ telemetry = NoTelemetry
    /\ procnum = 0
    /\ poolState = "none"
    /\ chunksize = 0
    /\ nextChunk = 1
    /\ worker = << >>
    /\ reactions = << >>
    /\ mapError = NoError
    /\ handed = << >>
    /\ coreMutated = [i \in DOMAIN coreSpcList |-> FALSE]
    /\ invoked = << >>

\* ---------------------------------------------------------------- actions
\* lines 125-144
BuildTuples ==
    /\ pc = "start"
    /\ spcTuples' = BuiltTuples
    /\ pc' = "partition"
    /\ UNCHANGED << clarVars, inputVars, splitListOrig, splitListTmp, splitList,
                    spcTuplestmp, tmpk, tmpjIdx, rxns, error, telemetry,
                    procnum, poolVars, heapVars >>

\* lines 146-197
BuildPartitions ==
    /\ pc = "partition"
    /\ splitListOrig' = families
    /\ splitListTmp' = BlankedFamilies(families)
    /\ splitList' = BuiltSplitList(families)
    /\ pc' = IF Len(spcTuples) = 0 THEN "react" ELSE "append"
    /\ UNCHANGED << clarVars, inputVars, spcTuples, spcTuplestmp, tmpk, tmpjIdx, rxns,
                    error, telemetry, procnum, poolVars, heapVars >>

\* one iteration of the loop of lines 199-232
AppendFamilies ==
    /\ pc = "append"
    /\ LET tmpj == spcTuples[tmpjIdx]
           branch == BranchOf(tmpj)
           lists == FamilyListsFor(tmpj)
           last == tmpjIdx = Len(spcTuples)
       IN  /\ spcTuplestmp' =
                IF branch = "taken"
                THEN spcTuplestmp \o [p \in 1..Len(lists) |-> Task(tmpj, lists[p])]
                ELSE spcTuplestmp
           /\ tmpk' =
                IF branch = "taken"
                THEN [bound |-> TRUE, spcs |-> tmpj, fams |-> lists[Len(lists)]]
                ELSE tmpk
           /\ error' =
                IF branch = "unbound"
                THEN [type |-> "UnboundLocalError", task |-> 0]
                ELSE error
           /\ pc' = IF branch = "unbound" THEN "raised"
                    ELSE IF last THEN "react" ELSE "append"
           /\ tmpjIdx' = IF branch = "unbound" THEN tmpjIdx ELSE tmpjIdx + 1
    /\ UNCHANGED << clarVars, inputVars, spcTuples, splitListOrig, splitListTmp,
                    splitList, rxns, telemetry, procnum, poolVars, heapVars >>

\* ------------------------------------------- worker count (61-86)
\* divmod(memoryavailable, memoryuse)[0]
Capacity(memoryavailable, memoryuse) == memoryavailable \div memoryuse

\* max(1, int(min(maxproc, tmp[0])))
WorkerCount(maxproc, memoryavailable, memoryuse) ==
    Max(1, Min(maxproc, Capacity(memoryavailable, memoryuse)))

\* what react can read: the platform, maxproc of rmgpy.rmg.main (a positive
\* process count), and on linux and darwin the two memory readings, or no
\* reading at all when a psutil/resource call raises
TelemetryReadings ==
    { t \in [platform : Platforms, maxproc : 1..MaxProc, readable : BOOLEAN,
             memoryavailable : 0..MaxMem, memoryuse : 0..MaxMem] :
        /\ t.platform = "win32" => t.readable
        /\ (t.platform = "win32" \/ ~t.readable) =>
               (t.memoryavailable = 0 /\ t.memoryuse = 0) }

\* the error lines 64-84 end with, or NoError
EstimateError(t) ==
    IF t.platform \notin {"linux2", "darwin"} THEN NoError
    ELSE IF ~t.readable THEN [type |-> "TelemetryError", task |-> 0]
    ELSE IF t.memoryuse = 0 THEN [type |-> "ZeroDivisionError", task |-> 0]
    ELSE NoError

\* procnum of line 72, 81 or 84
EstimatedProcnum(t) ==
    IF t.platform \in {"linux2", "darwin"}
    THEN WorkerCount(t.maxproc, t.memoryavailable, t.memoryuse)
    ELSE 1

\* ------------------------------------------------ Pool.map (91-95)
NumTasks == Len(spcTuplestmp)

\* variant: the pool starts one process more than the count computed
PoolProcessesPlusOne(n) == n + 1

\* Pool(processes=procnum): the number of worker processes of the pool
PoolProcesses(n) == n

\* the chunk length Pool.map chooses for the iterable
ChunkSize(len, nproc) ==
    IF len = 0 THEN 0
    ELSE (len \div (nproc * 4)) + (IF len % (nproc * 4) > 0 THEN 1 ELSE 0)

NumChunks ==
    IF chunksize = 0 THEN 0 ELSE (NumTasks + chunksize - 1) \div chunksize

\* variant: a chunk starts with the last task of the chunk before it
FirstTaskOfOverlapping(c) == Max(1, (c - 1) * chunksize)

FirstTaskOf(c) == (c - 1) * chunksize + 1
LastTaskOf(c) == Min(c * chunksize, NumTasks)

\* ------------------------------------------- reactSpecies (103-116)
\* A species instance is <<0, i>> for the instance held by coreSpcList[i],
\* and <<t, p>> for the instance task t creates for position p of its tuple.
CoreInstance(i) == << 0, i >>

\* variant: the tuple is passed on without copying
AliasedSpecies(spcs, t) == [p \in 1..Len(spcs) |-> CoreInstance(spcs[p])]

\* spc.copy(deep=True) for every species of the tuple: new instances
CopiedSpecies(spcs, t) == [p \in 1..Len(spcs) |-> << t, p >>]

\* the reactions one family yields for a tuple; split families yield more
FamilyReactions(spcs, f) ==
    [n \in 1..(IF f \in HotFamilyNames THEN 2 ELSE 1) |->
        [reactants |-> spcs, family |-> f, n |-> n]]

\* generate_reactions_from_families(speciesTuple, only_families=own_families):
\* the registry's families whose label is in only_families, in registry order
RECURSIVE GenerateFrom(_, _, _)
GenerateFrom(spcs, only, i) ==
    IF i > Len(families) THEN << >>
    ELSE (IF families[i] \in Range(only) THEN FamilyReactions(spcs, families[i])
          ELSE << >>) \o GenerateFrom(spcs, only, i + 1)

GenerateReactionsFromFamilies(spcs, only) == GenerateFrom(spcs, only, 1)

\* the first slots of the result list that hold no result yet
FreeSlots(n) ==
    LET free == SelectSeq([t \in 1..NumTasks |-> t], LAMBDA t : ~reactions[t].ready)
    IN  SubSeq(free, 1, n)

\* variant: results are stored in the order they arrive (imap_unordered)
StoredOnArrival(c, acc) ==
    LET slots == FreeSlots(Len(acc))
    IN  [t \in 1..NumTasks |->
            IF \E q \in 1..Len(slots) : slots[q] = t
            THEN [ready |-> TRUE,
                  value |-> acc[CHOOSE q \in 1..Len(slots) : slots[q] = t]]
            ELSE reactions[t]]

\* the value MapResult holds once a chunk's results arrive: every result
\* in the slot of its task
StoredChunk(c, acc) ==
    [t \in 1..NumTasks |->
        IF t >= FirstTaskOf(c) /\ t <= LastTaskOf(c)
        THEN [ready |-> TRUE, value |-> acc[t - FirstTaskOf(c) + 1]]
        ELSE reactions[t]]

\* variant: the map ends when every chunk was handled, failed ones included
MapDrained ==
    /\ nextChunk > NumChunks
    /\ \A w \in DOMAIN worker : worker[w] = Idle

\* variant: the map returns what it has without waiting (map_async)
MapNotAwaited == mapError = NoError

\* p.map has its result: no failure arrived and every chunk did
MapFinished ==
    /\ mapError = NoError
    /\ \A t \in 1..NumTasks : reactions[t].ready

\* itertools.chain.from_iterable(reactions), made a list at line 237
ChainedReactions(rs) == Flatten([t \in 1..Len(rs) |-> rs[t].value])

\* lines 61-86
EstimateProcnum ==
    /\ pc = "react"
    /\ \E t \in TelemetryReadings :
          /\ telemetry' = t
          /\ error' = EstimateError(t)
          /\ IF EstimateError(t) = NoError
             THEN procnum' = EstimatedProcnum(t) /\ pc' = "pool"
             ELSE procnum' = procnum /\ pc' = "raised"
    /\ UNCHANGED << clarVars, inputVars, buildVars, rxns, poolVars, heapVars >>

\* lines 91-95: the pool is created and the map submitted; the readings are
\* locals that are dead from here on
CreatePoolAndMap ==
    /\ pc = "pool"
    /\ poolState' = "open"
    /\ worker' = [w \in 1..PoolProcesses(procnum) |-> Idle]
    /\ chunksize' = ChunkSize(NumTasks, procnum)
    /\ nextChunk' = 1
    /\ reactions' = [t \in 1..NumTasks |-> NoResult]
    /\ handed' = [t \in 1..NumTasks |-> << >>]
    /\ invoked' = [t \in 1..NumTasks |-> 0]
    /\ mapError' = NoError
    /\ telemetry' = NoTelemetry
    /\ pc' = "map"
    /\ UNCHANGED << clarVars, inputVars, buildVars, rxns, error, procnum, coreMutated >>

\* an idle worker process takes the next chunk from the task queue
WorkerGet(w) ==
    /\ poolState = "open"
    /\ worker[w] = Idle
    /\ nextChunk <= NumChunks
    /\ worker' = [worker EXCEPT ![w] = [chunk |-> nextChunk, pos |-> 1, acc |-> << >>]]
    /\ nextChunk' = nextChunk + 1
    /\ UNCHANGED << clarVars, inputVars, buildVars, pc, rxns, error, telemetry, procnum,
                    poolState, chunksize, reactions, mapError, heapVars >>

\* a worker process runs reactSpecies on the next task of its chunk; the
\* engine may change the instances it is handed, and may raise
WorkerRun(w) ==
    /\ poolState = "open"
    /\ worker[w] # Idle
    /\ LET c == worker[w].chunk
           t == FirstTaskOf(c) + worker[w].pos - 1
           task == spcTuplestmp[t]
           speciesTuple == CopiedSpecies(task.spcs, t)
           result == GenerateReactionsFromFamilies(task.spcs, task.fams)
           acc == Append(worker[w].acc, result)
       IN  /\ handed' = [handed EXCEPT ![t] = speciesTuple]
           /\ invoked' = [invoked EXCEPT ![t] = invoked[t] + 1]
           /\ \E mutates \in BOOLEAN :
                 coreMutated' =
                    [i \in DOMAIN coreMutated |->
                        coreMutated[i] \/ (mutates /\ CoreInstance(i) \in Range(speciesTuple))]
           /\ \E raises \in BOOLEAN :
                 IF raises
                 THEN /\ worker' = [worker EXCEPT ![w] = Idle]
                      /\ mapError' = IF mapError = NoError
                                     THEN [type |-> "EngineError", task |-> t]
                                     ELSE mapError
                      /\ reactions' = [u \in 1..NumTasks |-> NoResult]
                 ELSE IF t < LastTaskOf(c)
                 THEN /\ worker' = [worker EXCEPT ![w] =
                                       [chunk |-> c, pos |-> worker[w].pos + 1, acc |-> acc]]
                      /\ UNCHANGED << mapError, reactions >>
                 ELSE /\ worker' = [worker EXCEPT ![w] = Idle]
                      /\ reactions' = IF mapError = NoError THEN StoredChunk(c, acc)
                                      ELSE reactions
                      /\ UNCHANGED mapError
    /\ UNCHANGED << clarVars, inputVars, buildVars, pc, rxns, error, telemetry, procnum,
                    poolState, chunksize, nextChunk >>

\* p.map returns the result list once every chunk has arrived
MapReturn ==
    /\ pc = "map"
    /\ MapFinished
    /\ pc' = "close"
    /\ UNCHANGED << clarVars, inputVars, buildVars, rxns, error, telemetry, procnum,
                    poolVars, heapVars >>

\* p.map re-raises the first failure that arrived; lines 97-100 are skipped
MapRaise ==
    /\ pc = "map"
    /\ mapError # NoError
    /\ error' = mapError
    /\ pc' = "raised"
    /\ UNCHANGED << clarVars, inputVars, buildVars, rxns, telemetry, procnum,
                    poolVars, heapVars >>

\* lines 97-98
CloseJoin ==
    /\ pc = "close"
    /\ poolState' = "joined"
    /\ pc' = "chain"
    /\ UNCHANGED << clarVars, inputVars, buildVars, rxns, error, telemetry, procnum,
                    chunksize, nextChunk, worker, reactions, mapError, heapVars >>

\* lines 100 and 237-239
ReturnReactions ==
    /\ pc = "chain"
    /\ rxns' = ChainedReactions(reactions)
    /\ pc' = "done"
    /\ UNCHANGED << clarVars, inputVars, buildVars, error, telemetry, procnum,
                    poolVars, heapVars >>

\* ------------------------------- clar_lp.py: the two LP backends
Backends == { "pyomo", "lpsolve" }

\* an exception: its type and str(e)
NoLpError == [type |-> "none", msg |-> ""]

\* the failures adding a constraint can end with
AddFailures ==
    [type : { "Exception", "ValueError" },
     msg : { "invalid vector.", "invalid vector", "out of memory" }]

\* what adding one constraint does: it succeeds (NoLpError) or raises
AddOutcomes == { NoLpError } \cup AddFailures

\* the constraints argument: None, or a list of constraints
ConstraintArguments ==
    { [isNone |-> TRUE, list |-> << >>] }
    \cup { [isNone |-> FALSE, list |-> l] :
             l \in UNION { [1..n -> AddOutcomes] : n \in 0..MaxConstraints } }

ILPSolutionError ==
    [type |-> "ILPSolutionError",
     msg |-> "Unable to add constraint, likely due to inconsistent aromatic ring perception."]

\* variant: the message is compared without its final period
IsInvalidVectorLoose(msg) == msg \in { "invalid vector.", "invalid vector" }

\* str(e) == 'invalid vector.'
IsInvalidVector(msg) == msg = "invalid vector."

\* what the handler of lines 39-46 and 80-87 raises for the failure e
RaisedFor(e) == IF IsInvalidVector(e.msg) THEN ILPSolutionError ELSE e

\* what the solver reports: lpsolve('solve', lp) returns a number (0 is
\* OPTIMAL, 2 is INFEASIBLE), pyomo a SolverStatus
SolverStatuses(backend) ==
    IF backend = "lpsolve" THEN { -2, 0, 1, 2, 3 }
    ELSE { "ok", "warning", "error", "aborted", "unknown" }

\* the objective value and the solution read back from the solver
SolverSolutions ==
    { [obj_val |-> 0, solution |-> << 0, 0 >>],
      [obj_val |-> 1, solution |-> << 1, 0 >>] }

\* variant: the status is returned as the solver reported it
ReportedStatus(backend, status) ==
    IF backend = "pyomo" THEN status = "ok" ELSE status

\* the status of the returned tuple: line 51, lines 89-91
ReturnedStatus(backend, status) ==
    IF backend = "pyomo" THEN status = "ok"
    ELSE IF status # 0 THEN 0 ELSE status

\* the LP object when the function returns: line 94 deletes lpsolve's
LpAtReturn(backend, lp) == IF backend = "lpsolve" THEN "deleted" ELSE lp

\* lines 11-31 and 60-73: the LP is created and set up
SetupLP ==
    /\ lpPc = "setup"
    /\ lpObject' = "alive"
    /\ lpPc' = IF constraints.isNone \/ Len(constraints.list) = 0
               THEN "solve" ELSE "constraints"
    /\ UNCHANGED << reactVars, lpBackend, constraints, lpIdx, lpSolverRuns,
                    lpResult, lpError >>

\* one iteration of the loop of lines 36-46 and 77-87
AddConstraint ==
    /\ lpPc = "constraints"
    /\ LET e == constraints.list[lpIdx]
       IN  IF e = NoLpError
           THEN /\ lpIdx' = lpIdx + 1
                /\ lpPc' = IF lpIdx = Len(constraints.list) THEN "solve"
                           ELSE "constraints"
                /\ UNCHANGED lpError
           ELSE /\ lpError' = RaisedFor(e)
                /\ lpPc' = "raised"
                /\ UNCHANGED lpIdx
    /\ UNCHANGED << reactVars, lpBackend, constraints, lpObject, lpSolverRuns,
                    lpResult >>

\* lines 48-55 and 89-96: the solver runs and the tuple is returned
SolveLP ==
    /\ lpPc = "solve"
    /\ \E status \in SolverStatuses(lpBackend), sol \in SolverSolutions :
          /\ lpSolverRuns' = Append(lpSolverRuns, status)
          /\ lpResult' = << ReturnedStatus(lpBackend, status), sol.obj_val,
                            sol.solution >>
    /\ lpObject' = LpAtReturn(lpBackend, lpObject)
    /\ lpPc' = "returned"
    /\ UNCHANGED << reactVars, lpBackend, constraints, lpIdx, lpError >>

\* ----------------------------------------------------- specifications
\* solve_clar_lp is not called
ClarNotCalled ==
    /\ lpBackend = "lpsolve"
    /\ constraints = [isNone |-> TRUE, list |-> << >>]
    /\ lpPc = "idle"
    /\ lpIdx = 1
    /\ lpObject = "none"
    /\ lpSolverRuns = << >>
    /\ lpResult = << >>
    /\ lpError = NoLpError

\* reactAll is not called
ReactNotCalled ==
    /\ coreSpcList = << >>
    /\ numOldCoreSpecies = 0
    /\ unimolecularReact = << >>
    /\ bimolecularReact = << >>
    /\ trimolecularReact = [isNone |-> TRUE, at |-> << >>]
    /\ families = << >>
    /\ InitLocals

\* reactAll as a whole, on a core list of one species
Init == InitInputs(1, Registries(MaxPoolFam)) /\ InitLocals /\ ClarNotCalled

Next ==
    \/ BuildTuples
    \/ BuildPartitions
    \/ AppendFamilies
    \/ EstimateProcnum
    \/ CreatePoolAndMap
    \/ \E w \in DOMAIN worker : WorkerGet(w)
    \/ \E w \in DOMAIN worker : WorkerRun(w)
    \/ MapReturn
    \/ MapRaise
    \/ CloseJoin
    \/ ReturnReactions

Spec == Init /\ [][Next]_vars

\* the steps of the process that calls reactAll
MainProcess ==
    \/ BuildTuples
    \/ BuildPartitions
    \/ AppendFamilies
    \/ EstimateProcnum
    \/ CreatePoolAndMap
    \/ MapReturn
    \/ MapRaise
    \/ CloseJoin
    \/ ReturnReactions

\* the steps of worker process w of the pool
WorkerProcess(w) == w \in DOMAIN worker /\ (WorkerGet(w) \/ WorkerRun(w))

\* every process that can take a step is scheduled in the end: the calling
\* process blocks only in p.map, a worker only on an empty task queue
Fairness ==
    /\ WF_vars(MainProcess)
    /\ \A w \in 1..MaxProc : WF_vars(WorkerProcess(w))

\* reactAll as a whole under fair scheduling, on one registry with a split
\* family and another family
InitFair ==
    /\ InitInputs(1, { << "H_Abstraction", "ketoenol" >> })
    /\ InitLocals
    /\ ClarNotCalled

FairSpec == InitFair /\ [][Next]_vars /\ Fairness

\* the task building (lines 125-232), on registries of up to MaxFam families
InitPartition ==
    InitInputs(1, Registries(MaxFam)) /\ InitLocals /\ ClarNotCalled

NextPartition ==
    \/ BuildTuples
    \/ BuildPartitions
    \/ AppendFamilies

SpecPartition == InitPartition /\ [][NextPartition]_vars

\* the tuple building alone, on every core list of NumSpecies species
InitTuples ==
    /\ InitInputs(NumSpecies, { << "H_Abstraction", "ketoenol" >> })
    /\ InitLocals
    /\ ClarNotCalled

NextTuples == BuildTuples

SpecTuples == InitTuples /\ [][NextTuples]_vars

\* one call of solve_clar_lp, with either backend
InitClar ==
    /\ ReactNotCalled
    /\ lpBackend \in Backends
    /\ constraints \in ConstraintArguments
    /\ lpPc = "setup"
    /\ lpIdx = 1
    /\ lpObject = "none"
    /\ lpSolverRuns = << >>
    /\ lpResult = << >>
    /\ lpError = NoLpError

NextClar ==
    \/ SetupLP
    \/ AddConstraint
    \/ SolveLP

SpecClar == InitClar /\ [][NextClar]_vars

\* the task building on every core list of NumSpecies species
SpecOrder == InitTuples /\ [][NextPartition]_vars

\* ------------------------------------------------------------- claims
\* the loop of lines 199-232 has run to its end
TasksBuilt ==
    \/ pc \in {"react", "pool", "map", "close", "chain", "done"}
    \/ pc = "raised" /\ error.type # "UnboundLocalError"

\* the tasks built for one species tuple, in submission order
TasksOfTuple(s) == SelectSeq(spcTuplestmp, LAMBDA t : t.spcs = s)

\* the number of tasks of a tuple whose family list holds family f
TasksHolding(s, f) ==
    Cardinality({ t \in 1..Len(spcTuplestmp) :
                    spcTuplestmp[t].spcs = s /\ f \in Range(spcTuplestmp[t].fams) })

\* C1: every species tuple reactAll builds, trimolecular ones included, has
\* at least one task in the list handed to react, and over the tasks of one
\* tuple every family of the registry appears exactly once.
C1_EveryFamilyOncePerTuple ==
    TasksBuilt =>
        \A s \in Range(spcTuples) :
            /\ Len(TasksOfTuple(s)) >= 1
            /\ \A f \in Range(families) : TasksHolding(s, f) = 1

\* the tuples the flags and the reactive species select, as index combinations
SelectedTuples ==
    LET old == 0..(numOldCoreSpecies - 1)
        ok(i) == coreSpcList[i].reactive
    IN  { <<i>> : i \in { x \in old : unimolecularReact[x] /\ ok(x) } }
        \cup { p \in old \X old :
                 p[1] <= p[2] /\ bimolecularReact[p] /\ ok(p[1]) /\ ok(p[2]) }
        \cup IF trimolecularReact.isNone THEN { }
             ELSE { q \in old \X old \X old :
                      /\ q[1] <= q[2] /\ q[2] <= q[3]
                      /\ trimolecularReact.at[q]
                      /\ ok(q[1]) /\ ok(q[2]) /\ ok(q[3]) }

\* C2: the tuples built are exactly the flagged combinations i, i <= j and
\* (with a trimolecular array) i <= j <= k below numOldCoreSpecies whose
\* species are all reactive; none is built twice and no non-reactive species
\* is in any tuple.
C2_TuplesExactlySelected ==
    pc # "start" =>
        /\ Range(spcTuples) = SelectedTuples
        /\ Cardinality(Range(spcTuples)) = Len(spcTuples)
        /\ \A n \in 1..Len(spcTuples) : \A p \in 1..Len(spcTuples[n]) :
              coreSpcList[spcTuples[n][p]].reactive

\* a self-pair was built while a flagged non-reactive species was left out
C2_Witness ==
    /\ pc # "start"
    /\ \E i \in DOMAIN coreSpcList : <<i, i>> \in Range(spcTuples)
    /\ \E i \in 0..(numOldCoreSpecies - 1) :
          unimolecularReact[i] /\ ~coreSpcList[i].reactive

\* the reactions every task yields, chained in submission order
ExpectedReactions ==
    Flatten([t \in 1..NumTasks |->
               GenerateReactionsFromFamilies(spcTuplestmp[t].spcs, spcTuplestmp[t].fams)])

\* C3: once a task has raised inside the running map, reactAll does not
\* return: it raises that task's error, and no reaction of any task that
\* succeeded is returned or kept.
C3_TaskErrorAbortsBatch ==
    /\ mapError # NoError =>
          /\ pc \in {"map", "raised"}
          /\ mapError.type = "EngineError"
          /\ mapError.task \in 1..NumTasks
          /\ handed[mapError.task] # << >>
          /\ rxns = << >>
          /\ \A t \in 1..NumTasks : reactions[t] = NoResult
    /\ (pc = "raised" /\ poolState = "open") => error = mapError /\ error # NoError

\* reactAll has raised a task's error after another task had succeeded
C3_Witness ==
    /\ pc = "raised"
    /\ error.type = "EngineError"
    /\ \E t \in 1..NumTasks : t # error.task /\ handed[t] # << >>
    /\ procnum = 1

\* C4: when no task raises, reactAll returns the per-task reaction lists
\* chained in task submission order, whatever order the workers finish in:
\* every result that has arrived is held in the slot of its task, and the
\* returned list is the chain of all tasks' reactions in submission order.
C4_ResultInSubmissionOrder ==
    /\ \A t \in DOMAIN reactions :
          reactions[t].ready =>
              reactions[t].value =
                  GenerateReactionsFromFamilies(spcTuplestmp[t].spcs, spcTuplestmp[t].fams)
    /\ pc = "done" => rxns = ExpectedReactions /\ mapError = NoError

\* two workers returned at least three tasks' reactions
C4_Witness ==
    /\ pc = "done"
    /\ procnum >= 2
    /\ NumTasks >= 3
    /\ Len(rxns) >= 3

\* the readings of lines 64-84 have been taken
ReadingsTaken == telemetry # NoTelemetry

\* C5: for any memory readings, zero included, and any maxproc, react
\* computes a worker count with 1 <= count <= maxproc.
C5_WorkerCountInRange ==
    (ReadingsTaken /\ telemetry.readable) =>
        /\ pc = "pool"
        /\ procnum >= 1
        /\ procnum <= telemetry.maxproc

\* C6: when the memory telemetry cannot be read or the capacity cannot be
\* computed from it, react goes on with a worker count of 1 and does not raise.
C6_EstimationFailureNotFatal ==
    ( /\ ReadingsTaken
      /\ telemetry.platform \in {"linux2", "darwin"}
      /\ (~telemetry.readable \/ telemetry.memoryuse = 0) ) =>
        /\ pc = "pool"
        /\ procnum = 1
        /\ error = NoError

\* the species instances the caller holds
CoreInstances == { CoreInstance(i) : i \in DOMAIN coreSpcList }

\* C7: the engine is handed new instances for every species of every task:
\* no instance is handed to two tasks, none is an instance of the core list,
\* and no core species instance is changed by the engine.
C7_TasksOwnTheirSpecies ==
    /\ \A t, u \in DOMAIN handed :
          t # u => Range(handed[t]) \cap Range(handed[u]) = { }
    /\ \A t \in DOMAIN handed :
          /\ Range(handed[t]) \cap CoreInstances = { }
          /\ Cardinality(Range(handed[t])) = Len(handed[t])
    /\ \A i \in DOMAIN coreMutated : ~coreMutated[i]

\* two tasks of the same tuple and a task of another tuple with the same
\* species have all run
C7_Witness ==
    \E t, u, v \in DOMAIN handed :
        /\ t # u
        /\ handed[t] # << >> /\ handed[u] # << >> /\ handed[v] # << >>
        /\ spcTuplestmp[t].spcs = spcTuplestmp[u].spcs
        /\ spcTuplestmp[v].spcs # spcTuplestmp[t].spcs
        /\ Range(spcTuplestmp[v].spcs) \cap Range(spcTuplestmp[t].spcs) # { }

\* how many times r occurs in the sequence rs
Occurrences(r, rs) == Cardinality({ n \in 1..Len(rs) : rs[n] = r })

\* C8: for a tuple split into several tasks the returned reactions are, with
\* the same multiplicities, those of one task against the whole registry.
C8_SplittingKeepsReactions ==
    pc = "done" =>
        \A s \in Range(spcTuples) :
            Len(TasksOfTuple(s)) > 1 =>
                LET whole == GenerateReactionsFromFamilies(s, splitListOrig)
                    got == SelectSeq(rxns, LAMBDA r : r.reactants = s)
                IN  \A r \in Range(whole) \cup Range(got) :
                        Occurrences(r, got) = Occurrences(r, whole)

\* a split tuple's reactions were returned
C8_Witness ==
    /\ pc = "done"
    /\ \E s \in Range(spcTuples) :
          /\ Len(TasksOfTuple(s)) > 1
          /\ \E n \in 1..Len(rxns) : rxns[n].reactants = s

\* splitList has been built (line 191)
PartitionsBuilt == pc \notin {"start", "partition"}

\* the family names a sublist holds
NamesOf(l) == Range(l) \ { EmptyList }

SplitInRegistry == Range(families) \cap HotFamilyNames

OwnFamilyLists(s) ==
    IF \E p \in 1..Len(s) : coreSpcList[s[p]].strLen > nAFS
    THEN splitList ELSE << splitListOrig >>

\* C10: every tuple of one, two or three species gets one task with the
\* whole registry when none of its species exceeds nAFS and one task per
\* sublist when one does, whatever tuple was handled before it.
C10_OwnSizeDecidesSplit ==
    TasksBuilt =>
        \A s \in Range(spcTuples) :
            TasksOfTuple(s) =
                [q \in 1..Len(OwnFamilyLists(s)) |-> Task(s, OwnFamilyLists(s)[q])]

\* C11: every task handed to react carries a family list that holds at
\* least one family name of the registry and nothing but family names of
\* the registry, also when every family of the registry is a split family.
C11_TaskFamiliesNonEmptyInRegistry ==
    TasksBuilt =>
        \A t \in 1..Len(spcTuplestmp) :
            /\ Range(spcTuplestmp[t].fams) \cap Range(families) # { }
            /\ Range(spcTuplestmp[t].fams) \subseteq Range(families)

\* the worker processes that are running a task
Running == { w \in DOMAIN worker : worker[w] # Idle }

\* a step taken after the worker count was computed leaves it as it is
ProcnumKept ==
    pc \in {"pool", "map", "close", "chain", "done", "raised"} => procnum' = procnum

\* C12: while the pool of a react call exists, the number of tasks being run
\* at the same time is at most the worker count computed at the start of
\* the call, the pool has exactly that many workers, and the count, once
\* computed, is never changed.
C12_ConcurrencyWithinWorkerCount ==
    /\ [](poolState # "none" =>
            /\ Cardinality(Running) <= procnum
            /\ Len(worker) = procnum)
    /\ [][ProcnumKept]_vars

\* two workers run a task each at the same time
C12_Witness ==
    /\ poolState = "open"
    /\ procnum = 2
    /\ Cardinality(Running) = 2

\* a submitted task is still waiting in the queue or being run
TasksOutstanding == nextChunk <= NumChunks \/ Running # { }

\* C13: p.map has returned, and so has react, only when no submitted task is
\* waiting or running and every task's result has arrived; and when the
\* processes are scheduled fairly, so that every task finishes, reactAll
\* returns or raises in the end.
C13_BlocksUntilAllTasksEnd ==
    /\ [](pc \in {"close", "chain", "done"} =>
            /\ ~TasksOutstanding
            /\ \A t \in 1..NumTasks : reactions[t].ready /\ invoked[t] >= 1)
    /\ <>(pc \in {"done", "raised"})

\* reactAll has returned after two workers ran its tasks
C13_Witness ==
    /\ pc = "done"
    /\ procnum = 2
    /\ \E t, u \in 1..NumTasks : t # u /\ invoked[t] = 1 /\ invoked[u] = 1

\* a comes before b in lexicographic order (tuples of the same length)
LexLess(a, b) ==
    \E p \in 1..Len(a) :
        /\ a[p] < b[p]
        /\ \A q \in 1..(p - 1) : a[q] = b[q]

\* the position in spcTuples of the tuple of task t
TupleIndexOf(t) ==
    CHOOSE n \in 1..Len(spcTuples) : spcTuples[n] = spcTuplestmp[t].spcs

\* C14: the tuples are built in an order the inputs fix: tuples of the same
\* arity are in strictly ascending lexicographic order of their species
\* indices, so the list is the one sorted enumeration of the selected
\* tuples; and the tasks follow the order of their tuples, the tasks of one
\* split tuple in the order of the sublists.
C14_TuplesAndTasksInFixedOrder ==
    /\ pc # "start" =>
          /\ Range(spcTuples) = SelectedTuples
          /\ \A m, n \in 1..Len(spcTuples) :
                (m < n /\ Len(spcTuples[m]) = Len(spcTuples[n])) =>
                    LexLess(spcTuples[m], spcTuples[n])
    /\ \A t, u \in 1..Len(spcTuplestmp) :
          t < u =>
              /\ TupleIndexOf(t) <= TupleIndexOf(u)
              /\ TupleIndexOf(t) = TupleIndexOf(u) =>
                    \E a, b \in 1..Len(splitList) :
                        /\ a < b
                        /\ spcTuplestmp[t].fams = splitList[a]
                        /\ spcTuplestmp[u].fams = splitList[b]

\* at least two pairs were built and three or more tasks made, a pair's
\* among them
C14_Witness ==
    /\ TasksBuilt
    /\ Len(SelectSeq(spcTuples, LAMBDA s : Len(s) = 2)) >= 2
    /\ Len(spcTuplestmp) >= 3
    /\ \E t \in 1..Len(spcTuplestmp) : Len(spcTuplestmp[t].spcs) = 2

\* the step after the readings on a platform that is neither Linux nor
\* macOS: the worker count is 1 and no pool comes into being
NoPoolElsewhere ==
    (ReadingsTaken /\ telemetry.platform \notin {"linux2", "darwin"}) =>
        /\ procnum = 1
        /\ poolState' = "none"

\* C15: on a platform that is neither Linux nor macOS react uses a worker
\* count of exactly 1 whatever maxproc is, and runs the tasks without
\* creating a worker pool.
C15_NoPoolOnOtherPlatforms == [][NoPoolElsewhere]_vars

\* C16: the engine is called at most once for a task, and when p.map has
\* returned, which it does only when no task raised, it has been called
\* exactly once for every task submitted, whatever the worker count and the
\* interleaving of the workers.
C16_EngineCalledOncePerTask ==
    /\ \A t \in DOMAIN invoked : invoked[t] <= 1
    /\ pc \in {"close", "chain", "done"} =>
          /\ DOMAIN invoked = 1..NumTasks
          /\ \A t \in 1..NumTasks : invoked[t] = 1

\* a map of chunks of two tasks has returned
C16_Witness ==
    /\ pc = "done"
    /\ chunksize >= 2
    /\ NumTasks >= 5
    /\ \A t \in 1..NumTasks : invoked[t] = 1

\* C17: whenever react has ended after creating its pool, by returning or
\* by passing on a task's error, the pool has been closed and joined and no
\* worker of it is still running a task.
C17_PoolJoinedOnEveryExit ==
    (pc \in {"chain", "done", "raised"} /\ poolState # "none") =>
        /\ poolState = "joined"
        /\ Running = { }

\* C18: with either backend, when adding a constraint fails the call ends
\* with ILPSolutionError if and only if the failure's message is exactly
\* 'invalid vector.', and with the failure itself, unchanged, otherwise; in
\* both cases the solver was not run and no tuple was returned.
C18_ConstraintFailureRaised ==
    /\ lpPc = "raised" =>
          LET e == constraints.list[lpIdx]
          IN  /\ e \in AddFailures
              /\ \A i \in 1..(lpIdx - 1) : constraints.list[i] = NoLpError
              /\ (lpError = ILPSolutionError) <=> (e.msg = "invalid vector.")
              /\ (e.msg # "invalid vector.") => lpError = e
              /\ lpSolverRuns = << >>
              /\ lpResult = << >>
    /\ lpSolverRuns # << >> =>
          /\ lpError = NoLpError
          /\ ~constraints.isNone =>
                \A i \in 1..Len(constraints.list) : constraints.list[i] = NoLpError

\* the pyomo backend has raised ILPSolutionError for the second constraint
C18_Witness ==
    /\ lpPc = "raised"
    /\ lpBackend = "pyomo"
    /\ lpIdx = 2
    /\ lpError = ILPSolutionError

\* C19: solve_clar_lp_lpsolve returns status 0 whatever status the solver
\* reported, for a failed or infeasible solve as for an optimal one, and
\* the LP object it created has been deleted when it returns.
C19_LpsolveStatusAlwaysZero ==
    (lpPc = "returned" /\ lpBackend = "lpsolve") =>
        /\ Len(lpSolverRuns) = 1
        /\ lpResult[1] = 0
        /\ lpObject = "deleted"

\* lpsolve reported an infeasible problem and the call returned
C19_Witness ==
    /\ lpPc = "returned"
    /\ lpBackend = "lpsolve"
    /\ lpSolverRuns = << 2 >>
    /\ ~constraints.isNone /\ Len(constraints.list) = 2

====
